---- MODULE Spec2Model ----
(***************************************************************************)
(* A model of nicheScrape.py: NichePromotionFinder and main.               *)
(*                                                                         *)
(* Strings are sequences of character codes (Unicode code points), so that *)
(* lower-casing, the regular expression of _clean_text, str.strip, the     *)
(* f-string templates and the JSON encoding of json.dump act on what they  *)
(* act on in the program.  The report self.results is an insertion-ordered *)
(* dict: a sequence of <<key, list>> pairs.                                *)
(***************************************************************************)
EXTENDS Integers, Sequences, FiniteSets, TLC

VARIABLES
    pc,        \* position of the (single) thread in main / aggregate / a routine
    niche,     \* self.niche
    results,   \* self.results
    topics,    \* local `topics` of find_github_topics
    page,      \* local `page` of find_github_topics
    resp,      \* the last HTTP response received (status code and body)
    reqs,      \* HTTP requests issued by the routine that is running
    status,    \* per routine: "pending", "ok" (returned normally), "raised" (except branch)
    ret,       \* per routine: the value it returned
    before,    \* self.results as it was when the running routine was called
    calls,     \* routines invoked so far, in order
    anyResponse, \* TRUE once some HTTP call returned a response instead of raising
    file,      \* promotion_channels.json: whether it exists, and its lines
    writeLimit \* the bytes the file system takes of a file before a write fails

vars ==
    <<pc, niche, results, topics, page, resp, reqs, status, ret, before, calls,
      anyResponse, file, writeLimit>>

----------------------------------------------------------------------------
(* Bounds of the model *)

\* longest line typed at the prompt of main
MaxLineLen ==
    1

\* longest text handed to _clean_text on its own
MaxTextLen ==
    3

\* items of a full page of the GitHub search
BigPage ==
    25

\* children of an oversized Reddit search response
ManyChildren ==
    21

\* a limit on the size of the exported file, in bytes, below the size of any
\* report
CutAt ==
    100

(* Program constants *)

\* 'limit': 20
RedditLimit ==
    20

\* while len(topics) < 20
TopicsWanted ==
    20

\* topics[:20]
TopicsCap ==
    20

\* all_hashtags[:20]
HashtagCap ==
    20

\* 'max_results': 100
TwitterMaxResults ==
    100

\* json.dump(..., indent=4)
JsonIndent ==
    4

----------------------------------------------------------------------------
(* Sequence helpers *)

Range(s) ==
    {s[i] : i \in 1..Len(s)}

\* s[:n]
Take(s, n) ==
    SubSeq(s, 1, IF Len(s) < n THEN Len(s) ELSE n)

\* the elements of s, each once, in order of first occurrence
Dedupe(s) ==
    LET keep == {i \in 1..Len(s) : \A j \in 1..(i - 1) : s[j] # s[i]}
        pos == [i \in 1..Len(s) |-> Cardinality({j \in keep : j <= i})]
    IN  [k \in 1..Cardinality(keep) |-> s[CHOOSE i \in keep : pos[i] = k]]

RECURSIVE Concat(_)
\* "".join(parts)
Concat(parts) ==
    IF parts = <<>> THEN <<>> ELSE Head(parts) \o Concat(Tail(parts))

\* all sequences over `alphabet` of length at most n
SeqsUpTo(alphabet, n) ==
    UNION {[1..k -> alphabet] : k \in 0..n}

----------------------------------------------------------------------------
(* Characters: str.lower, \s and str.strip, the class [^a-zA-Z0-9\s] *)

\* str.isspace / \s of a str pattern, for code points below 256
IsSpace(c) ==
    c \in {9, 10, 11, 12, 13, 28, 29, 30, 31, 32, 133, 160}

\* str.lower of one character, for code points below 256
LowerChar(c) ==
    IF c \in 65..90 THEN c + 32
    ELSE IF c \in 192..222 /\ c # 215 THEN c + 32
    ELSE c

\* text.lower()
Lower(s) ==
    [i \in 1..Len(s) |-> LowerChar(s[i])]

\* the characters the pattern [^a-zA-Z0-9\s] does NOT match, i.e. those kept
KeptByPattern(c) ==
    \/ c \in 97..122
    \/ c \in 65..90
    \/ c \in 48..57
    \/ IsSpace(c)

\* re.sub(r'[^a-zA-Z0-9\s]', '', s)
RemoveOthers(s) ==
    SelectSeq(s, KeptByPattern)

\* s.strip()
Strip(s) ==
    LET idx == {i \in 1..Len(s) : ~IsSpace(s[i])}
    IN  IF idx = {} THEN <<>>
        ELSE SubSeq(s, CHOOSE i \in idx : \A j \in idx : i <= j,
                       CHOOSE i \in idx : \A j \in idx : i >= j)

\* _clean_text without the final strip()
clean_text_NoStrip(text) ==
    RemoveOthers(Lower(text))

\* _clean_text
clean_text(text) ==
    Strip(RemoveOthers(Lower(text)))

----------------------------------------------------------------------------
(* String literals of the program, as character codes *)

\* "community"
S_community ==
    <<99, 111, 109, 109, 117, 110, 105, 116, 121>>
\* "discussions"
S_discussions ==
    <<100, 105, 115, 99, 117, 115, 115, 105, 111, 110, 115>>
\* "hub"
S_hub ==
    <<104, 117, 98>>
\* "lovers"
S_lovers ==
    <<108, 111, 118, 101, 114, 115>>
\* "dev.to/"
S_devto ==
    <<100, 101, 118, 46, 116, 111, 47>>
\* "developers"
S_developers ==
    <<100, 101, 118, 101, 108, 111, 112, 101, 114, 115>>
\* "community."
S_communityDot ==
    <<99, 111, 109, 109, 117, 110, 105, 116, 121, 46>>
\* ".org"
S_dotOrg ==
    <<46, 111, 114, 103>>
\* " Community"
S_QCommunity ==
    <<32, 67, 111, 109, 109, 117, 110, 105, 116, 121>>
\* " Discussions"
S_QDiscussions ==
    <<32, 68, 105, 115, 99, 117, 115, 115, 105, 111, 110, 115>>
\* "Experts in "
S_ExpertsIn ==
    <<69, 120, 112, 101, 114, 116, 115, 32, 105, 110, 32>>
\* " Insights"
S_Insights ==
    <<32, 73, 110, 115, 105, 103, 104, 116, 115>>
\* "All About "
S_AllAbout ==
    <<65, 108, 108, 32, 65, 98, 111, 117, 116, 32>>
\* "subreddits"
K_subreddits ==
    <<115, 117, 98, 114, 101, 100, 100, 105, 116, 115>>
\* "reddit_communities"
K_reddit_communities ==
    <<114, 101, 100, 100, 105, 116, 95, 99, 111, 109, 109, 117, 110, 105, 116, 105, 101, 115>>
\* "github_topics"
K_github_topics ==
    <<103, 105, 116, 104, 117, 98, 95, 116, 111, 112, 105, 99, 115>>
\* "twitter_hashtags"
K_twitter_hashtags ==
    <<116, 119, 105, 116, 116, 101, 114, 95, 104, 97, 115, 104, 116, 97, 103, 115>>
\* "dev_communities"
K_dev_communities ==
    <<100, 101, 118, 95, 99, 111, 109, 109, 117, 110, 105, 116, 105, 101, 115>>
\* "youtube_channels"
K_youtube_channels ==
    <<121, 111, 117, 116, 117, 98, 101, 95, 99, 104, 97, 110, 110, 101, 108, 115>>
\* "quora_topics"
K_quora_topics ==
    <<113, 117, 111, 114, 97, 95, 116, 111, 112, 105, 99, 115>>
\* "medium_topics"
K_medium_topics ==
    <<109, 101, 100, 105, 117, 109, 95, 116, 111, 112, 105, 99, 115>>
\* "communities"
K_communities ==
    <<99, 111, 109, 109, 117, 110, 105, 116, 105, 101, 115>>

----------------------------------------------------------------------------
(* The insertion-ordered dict *)

\* list(d.keys())
Keys(d) ==
    [i \in 1..Len(d) |-> d[i][1]]

HasKey(d, k) ==
    \E i \in 1..Len(d) : d[i][1] = k

\* d[k]
Get(d, k) ==
    d[CHOOSE i \in 1..Len(d) : d[i][1] = k][2]

\* d[k] = v : an existing key keeps its place, a new key goes last
Put(d, k, v) ==
    IF HasKey(d, k)
    THEN [i \in 1..Len(d) |-> IF d[i][1] = k THEN <<k, v>> ELSE d[i]]
    ELSE Append(d, <<k, v>>)

\* self.results of __init__ with 'youtube_channels' forgotten
InitialResults_NoYoutube ==
    << <<K_subreddits, <<>>>>, <<K_reddit_communities, <<>>>>,
       <<K_github_topics, <<>>>>, <<K_twitter_hashtags, <<>>>>,
       <<K_dev_communities, <<>>>>,
       <<K_quora_topics, <<>>>>, <<K_medium_topics, <<>>>> >>

\* self.results of __init__
InitialResults ==
    << <<K_subreddits, <<>>>>, <<K_reddit_communities, <<>>>>,
       <<K_github_topics, <<>>>>, <<K_twitter_hashtags, <<>>>>,
       <<K_dev_communities, <<>>>>, <<K_youtube_channels, <<>>>>,
       <<K_quora_topics, <<>>>>, <<K_medium_topics, <<>>>> >>

----------------------------------------------------------------------------
(* The templated names *)

\* the three Reddit community names
RedditCommunities(n) ==
    << clean_text(n) \o S_community, n \o S_discussions, n \o S_hub >>

\* generated_hashtags
GeneratedHashtags(n) ==
    << <<35>> \o clean_text(n) \o S_community,
       <<35>> \o clean_text(n) \o S_hub,
       <<35>> \o clean_text(n) \o S_lovers >>

\* dev_platforms
DevPlatforms(n) ==
    << S_devto \o clean_text(n),
       clean_text(n) \o S_developers,
       S_communityDot \o clean_text(n) \o S_dotOrg >>

\* communities['Quora Topics']
QuoraTopics(n) ==
    << n \o S_QCommunity, n \o S_QDiscussions, S_ExpertsIn \o n >>

\* communities['Medium Topics']
MediumTopics(n) ==
    << n \o S_Insights, n \o S_QCommunity, S_AllAbout \o n >>

----------------------------------------------------------------------------
(* list(set(xs)): the elements of xs, each once.  The order in which a set  *)
(* of strings is iterated depends on the process's hash seed and can be any  *)
(* arrangement of its elements.  An order is a sequence that holds each of   *)
(* 1..n once: its i-th entry tells which element, counted by first           *)
(* occurrence in xs, comes out i-th.                                         *)

\* len(set(xs))
Distinct(xs) ==
    Cardinality(Range(xs))

\* every order of n elements
Orders(n) ==
    {o \in [1..n -> 1..n] : \A i, j \in 1..n : o[i] = o[j] => i = j}

\* list(set(xs)) when the set is iterated in the order ord
SetOrder(xs, ord) ==
    LET d == Dedupe(xs)
    IN  [i \in 1..Len(d) |-> d[ord[i]]]

----------------------------------------------------------------------------
(* find_github_topics: the parts that compute *)

HasSlash(s) ==
    \E i \in 1..Len(s) : s[i] = 47

\* full_name.split('/')[1]  (defined when full_name holds a '/')
RepoName(s) ==
    LET sl == {i \in 1..Len(s) : s[i] = 47}
        p1 == CHOOSE i \in sl : \A j \in sl : i <= j
        after == {i \in sl : i > p1}
        p2 == IF after = {} THEN Len(s) + 1
              ELSE CHOOSE i \in after : \A j \in after : i <= j
    IN  SubSeq(s, p1 + 1, p2 - 1)

\* new_topics
NewTopics(items) ==
    [i \in 1..Len(items) |-> RepoName(items[i])]

\* no deduplication
GithubResult_NoSet(ts, ord) ==
    Take(ts, TopicsCap)

\* list(set(topics[:20])), the set iterated in the order ord
GithubResult(ts, ord) ==
    SetOrder(Take(ts, TopicsCap), ord)

----------------------------------------------------------------------------
(* find_twitter_hashtags: the parts that compute *)

RECURSIVE ExtractHashtags(_)
\* the loop over data.get('data', []) that extends `hashtags`
ExtractHashtags(tweets) ==
    IF tweets = <<>> THEN <<>>
    ELSE LET t == Head(tweets)
             here == IF t.entities /\ t.hashtags
                     THEN [i \in 1..Len(t.tags) |-> <<35>> \o t.tags[i]]
                     ELSE <<>>
         IN  here \o ExtractHashtags(Tail(tweets))

\* no deduplication
TwitterResult_NoSet(hashtags, generated, ord) ==
    Take(hashtags \o generated, HashtagCap)

\* list(set(hashtags + generated_hashtags))[:20], the set iterated in the
\* order ord
TwitterResult(hashtags, generated, ord) ==
    Take(SetOrder(hashtags \o generated, ord), HashtagCap)

----------------------------------------------------------------------------
(* json.dump(self.results, f, indent=4): the text written, line by line.    *)
(* ensure_ascii is on (the default): every character outside ' '..'~', the  *)
(* quote and the backslash are escaped.                                     *)

\* one hexadecimal digit, lower case
HexDigit(d) ==
    IF d < 10 THEN 48 + d ELSE 87 + d

\* '{0:04x}'.format(c), for c < 65536
Hex4(c) ==
    << HexDigit(c \div 4096), HexDigit((c \div 256) % 16),
       HexDigit((c \div 16) % 16), HexDigit(c % 16) >>

\* the replacement of one character inside a JSON string (py_encode_basestring_ascii)
EscapeChar(c) ==
    IF c = 34 THEN <<92, 34>>
    ELSE IF c = 92 THEN <<92, 92>>
    ELSE IF c = 10 THEN <<92, 110>>
    ELSE IF c = 13 THEN <<92, 114>>
    ELSE IF c = 9 THEN <<92, 116>>
    ELSE IF c = 12 THEN <<92, 102>>
    ELSE IF c = 8 THEN <<92, 98>>
    ELSE IF c < 32 \/ c > 126 THEN <<92, 117>> \o Hex4(c)
    ELSE <<c>>

\* a string as a JSON string literal, quotes included
JsonString(str) ==
    <<34>> \o Concat([i \in 1..Len(str) |-> EscapeChar(str[i])]) \o <<34>>

\* n spaces
Spaces(n) ==
    [i \in 1..n |-> 32]

\* the lines of one "key": [...] member; `last` says no comma follows it
MemberLines(key, list, last) ==
    LET comma == IF last THEN <<>> ELSE <<44>>
        head == Spaces(JsonIndent) \o JsonString(key) \o <<58, 32>>
    IN  IF list = <<>>
        THEN << head \o <<91, 93>> \o comma >>
        ELSE << head \o <<91>> >>
             \o [i \in 1..Len(list) |->
                   Spaces(2 * JsonIndent) \o JsonString(list[i])
                   \o (IF i = Len(list) THEN <<>> ELSE <<44>>)]
             \o << Spaces(JsonIndent) \o <<93>> \o comma >>

\* the lines json.dump writes for the dict d
JsonDump(d) ==
    IF d = <<>> THEN << <<123, 125>> >>
    ELSE << <<123>> >>
         \o Concat([i \in 1..Len(d) |-> MemberLines(d[i][1], d[i][2], i = Len(d))])
         \o << <<125>> >>

----------------------------------------------------------------------------
(* What the outside world can answer *)

\* characters of the line typed at the prompt: 'A', '"', ' '
LineAlphabet ==
    {65, 34, 32}

\* characters of a text handed to _clean_text:
\* 'A', 'b', '7', '-', ' ', tab, newline, e-acute
TextAlphabet ==
    {65, 98, 55, 45, 32, 9, 10, 233}

\* no response: the call raised (connection error, timeout, ...)
NoResponse ==
    [code |-> 0, json |-> FALSE, key |-> FALSE, items |-> <<>>]

\* a response: its status code; json: the body parses and holds every key the
\* code indexes with [...]; key: it holds the key the code looks up; items: the
\* list under that key
Response(code, json, key, items) ==
    [code |-> code, json |-> json, key |-> key, items |-> items]

\* answers of the token endpoint: a token, an error body without one, no JSON
RedditTokenResponses ==
    { Response(200, TRUE, TRUE, <<>>),
      Response(401, TRUE, FALSE, <<>>),
      Response(200, FALSE, FALSE, <<>>) }

\* display_name of the i-th child; the first holds '/', '"', '\', e-acute and a tab
RedditChild(i) ==
    IF i = 1 THEN <<114, 47, 34, 92, 233, 9>> ELSE <<115, 96 + i>>

RedditChildren(n) ==
    [i \in 1..n |-> RedditChild(i)]

\* answers of the subreddit search: listings of 0, 2 and ManyChildren children
\* (a server need not honour 'limit'), a listing sent with status 403, an error
\* body without data.children, no JSON
RedditSearchResponses ==
    { Response(200, TRUE, TRUE, RedditChildren(n)) : n \in {0, 2, ManyChildren} }
    \cup { Response(403, TRUE, TRUE, RedditChildren(2)),
           Response(403, TRUE, FALSE, <<>>),
           Response(200, FALSE, FALSE, <<>>) }

\* full_name of the only item of a one-item page: "o/a"
SingleItem ==
    <<111, 47, 97>>

\* full_name of the i-th item of a full page of repositories that share their
\* names: "p/b" and "q/c" in turn, and "r/d" for the last
RepeatItem(i) ==
    IF i = BigPage THEN <<114, 47, 100>>
    ELSE IF i % 2 = 1 THEN <<112, 47, 98>>
    ELSE <<113, 47, 99>>

\* answers of the repository search: a full page, a one-item page, an empty
\* page, a body without 'items', an item whose full_name holds no '/', a
\* rate-limit answer (403), no JSON
GithubResponses ==
    { Response(200, TRUE, TRUE, [i \in 1..BigPage |-> RepeatItem(i)]),
      Response(200, TRUE, TRUE, <<SingleItem>>),
      Response(200, TRUE, TRUE, <<>>),
      Response(200, TRUE, FALSE, <<>>),
      Response(200, TRUE, TRUE, << <<111, 97>> >>),
      Response(403, TRUE, FALSE, <<>>),
      Response(200, FALSE, FALSE, <<>>) }

\* a tweet: whether it has 'entities', whether those have 'hashtags', the tags
Tweet(entities, hashtags, tags) ==
    [entities |-> entities, hashtags |-> hashtags, tags |-> tags]

\* three tweets: one without entities, one without hashtags, one whose tags
\* repeat and echo a generated hashtag
FewTweets(n) ==
    << Tweet(FALSE, FALSE, <<>>), Tweet(TRUE, FALSE, <<>>),
       Tweet(TRUE, TRUE, << <<116>>, <<116>>, clean_text(n) \o S_hub >>) >>

\* answers of the recent search: tweets, an error body without 'data' (401), no JSON
TwitterResponses(n) ==
    { Response(200, TRUE, TRUE, FewTweets(n)),
      Response(401, TRUE, FALSE, <<>>),
      Response(200, FALSE, FALSE, <<>>) }

\* no limit on the size of a file
NoLimit ==
    -1

\* the limits on the size of the exported file: none, no byte at all, CutAt bytes
WriteLimits ==
    {NoLimit, 0, CutAt}

----------------------------------------------------------------------------
(* The state machine *)

Routines ==
    {"reddit", "github", "twitter", "export"}

\* main: input(...).strip(), then NichePromotionFinder(niche)
Init ==
    /\ niche \in {Strip(l) : l \in SeqsUpTo(LineAlphabet, MaxLineLen)}
    /\ results = InitialResults
    /\ pc = "reddit_token"
    /\ topics = <<>>
    /\ page = 0
    /\ resp = NoResponse
    /\ reqs = <<>>
    /\ status = [r \in Routines |-> "pending"]
    /\ ret = [reddit |-> {}, github |-> <<>>, twitter |-> <<>>, clean |-> <<>>]
    /\ before = InitialResults
    /\ calls = <<>>
    /\ anyResponse = FALSE
    /\ file = [exists |-> FALSE, lines |-> <<>>]
    /\ writeLimit \in WriteLimits

\* a request goes out and either raises or is answered by r
Answered(r) ==
    /\ resp' = r
    /\ anyResponse' = TRUE

Unanswered ==
    /\ resp' = NoResponse
    /\ anyResponse' = anyResponse

\* the except branch of routine r: print, return the empty value
Except(r, empty, next) ==
    /\ status' = [status EXCEPT ![r] = "raised"]
    /\ ret' = [ret EXCEPT ![r] = empty]
    /\ pc' = next

TokenRequest ==
    [endpoint |-> "access_token", arg |-> 0]

SearchRequest ==
    [endpoint |-> "subreddits/search", arg |-> RedditLimit]

GithubRequest(p) ==
    [endpoint |-> "search/repositories", arg |-> p]

TwitterRequest ==
    [endpoint |-> "tweets/search/recent", arg |-> TwitterMaxResults]

(* find_reddit_opportunities *)

\* the token request raises, or its answer holds no 'access_token'
RedditTokenRaise ==
    /\ pc = "reddit_token"
    /\ calls' = Append(calls, "find_reddit_opportunities")
    /\ before' = results
    /\ reqs' = <<TokenRequest>>
    /\ \/ Unanswered
       \/ \E r \in RedditTokenResponses : ~(r.json /\ r.key) /\ Answered(r)
    /\ Except("reddit", {}, "github_begin")
    /\ UNCHANGED <<niche, writeLimit, results, topics, page, file>>

\* the token request is answered with a token
RedditTokenOk ==
    /\ pc = "reddit_token"
    /\ calls' = Append(calls, "find_reddit_opportunities")
    /\ before' = results
    /\ reqs' = <<TokenRequest>>
    /\ \E r \in RedditTokenResponses : r.json /\ r.key /\ Answered(r)
    /\ pc' = "reddit_search"
    /\ UNCHANGED <<niche, writeLimit, results, topics, page, status, ret, file>>

\* the search request raises, or its answer lacks data.children / display_name
RedditSearchRaise ==
    /\ pc = "reddit_search"
    /\ reqs' = Append(reqs, SearchRequest)
    /\ \/ Unanswered
       \/ \E r \in RedditSearchResponses : ~(r.json /\ r.key) /\ Answered(r)
    /\ Except("reddit", {}, "github_begin")
    /\ UNCHANGED <<niche, writeLimit, results, topics, page, before, calls, file>>

\* a search that keeps the first 'limit' children only
RedditSearchOk_Truncating ==
    /\ pc = "reddit_search"
    /\ reqs' = Append(reqs, SearchRequest)
    /\ \E r \in RedditSearchResponses :
          /\ r.json /\ r.key
          /\ Answered(r)
          /\ LET subreddits == Take(r.items, RedditLimit)
                 communities == RedditCommunities(niche)
             IN  /\ results' = Put(Put(results, K_subreddits, subreddits),
                                   K_reddit_communities, communities)
                 /\ ret' = [ret EXCEPT !.reddit =
                               { <<K_subreddits, subreddits>>,
                                 <<K_communities, communities>> }]
    /\ status' = [status EXCEPT !.reddit = "ok"]
    /\ pc' = "github_begin"
    /\ UNCHANGED <<niche, writeLimit, topics, page, before, calls, file>>

\* the search is answered with a listing: store the names and the communities
RedditSearchOk ==
    /\ pc = "reddit_search"
    /\ reqs' = Append(reqs, SearchRequest)
    /\ \E r \in RedditSearchResponses :
          /\ r.json /\ r.key
          /\ Answered(r)
          /\ LET subreddits == r.items
                 communities == RedditCommunities(niche)
             IN  /\ results' = Put(Put(results, K_subreddits, subreddits),
                                   K_reddit_communities, communities)
                 /\ ret' = [ret EXCEPT !.reddit =
                               { <<K_subreddits, subreddits>>,
                                 <<K_communities, communities>> }]
    /\ status' = [status EXCEPT !.reddit = "ok"]
    /\ pc' = "github_begin"
    /\ UNCHANGED <<niche, writeLimit, topics, page, before, calls, file>>


(* find_github_topics.  Its locals keep the values they had at its return    *)
(* until the next routine is called.                                         *)

\* topics = [], page = 1
GithubBegin ==
    /\ pc = "github_begin"
    /\ calls' = Append(calls, "find_github_topics")
    /\ before' = results
    /\ reqs' = <<>>
    /\ topics' = <<>>
    /\ page' = 1
    /\ pc' = "github_loop"
    /\ UNCHANGED <<niche, writeLimit, results, resp, status, ret, anyResponse, file>>

\* while len(topics) < 20: the condition is false
GithubLoopExit ==
    /\ pc = "github_loop"
    /\ ~(Len(topics) < TopicsWanted)
    /\ pc' = "github_store"
    /\ UNCHANGED <<niche, writeLimit, results, topics, page, resp, reqs, status, ret, before,
                   calls, anyResponse, file>>

\* the body of a 200 answer can be read: it parses, each full_name holds a '/'
GithubReadable(r) ==
    r.json /\ \A i \in 1..Len(r.items) : HasSlash(r.items[i])

\* an iteration that stores what it has before it fails
GithubRequestRaise_StoresPartial ==
    /\ pc = "github_loop"
    /\ Len(topics) < TopicsWanted
    /\ reqs' = Append(reqs, GithubRequest(page))
    /\ \/ Unanswered
       \/ \E r \in GithubResponses : r.code = 200 /\ ~GithubReadable(r) /\ Answered(r)
    /\ results' = Put(results, K_github_topics, Dedupe(Take(topics, TopicsCap)))
    /\ Except("github", <<>>, "twitter")
    /\ UNCHANGED <<niche, writeLimit, topics, page, before, calls, file>>

\* an iteration whose request raises, or whose 200 answer cannot be read
GithubRequestRaise ==
    /\ pc = "github_loop"
    /\ Len(topics) < TopicsWanted
    /\ reqs' = Append(reqs, GithubRequest(page))
    /\ \/ Unanswered
       \/ \E r \in GithubResponses : r.code = 200 /\ ~GithubReadable(r) /\ Answered(r)
    /\ Except("github", <<>>, "twitter")
    /\ UNCHANGED <<niche, writeLimit, results, topics, page, before, calls, file>>

\* an iteration answered with a status other than 200: break
GithubNot200 ==
    /\ pc = "github_loop"
    /\ Len(topics) < TopicsWanted
    /\ reqs' = Append(reqs, GithubRequest(page))
    /\ \E r \in GithubResponses : r.code # 200 /\ Answered(r)
    /\ pc' = "github_store"
    /\ UNCHANGED <<niche, writeLimit, results, topics, page, status, ret, before, calls, file>>

\* an iteration that goes on after an empty page and asks for the same page again
GithubPage_NoBreak ==
    /\ pc = "github_loop"
    /\ Len(topics) < TopicsWanted
    /\ Len(reqs) < TopicsWanted + 2
    /\ reqs' = Append(reqs, GithubRequest(page))
    /\ \E r \in GithubResponses :
          /\ r.code = 200 /\ GithubReadable(r)
          /\ Answered(r)
          /\ LET items == IF r.key THEN r.items ELSE <<>>
             IN  /\ topics' = topics \o NewTopics(items)
                 /\ page' = IF Len(items) = 0 THEN page ELSE page + 1
                 /\ pc' = "github_loop"
    /\ UNCHANGED <<niche, writeLimit, results, status, ret, before, calls, file>>

\* an iteration answered with a readable page: extend topics, page += 1,
\* break if the page was empty
GithubPage ==
    /\ pc = "github_loop"
    /\ Len(topics) < TopicsWanted
    /\ reqs' = Append(reqs, GithubRequest(page))
    /\ \E r \in GithubResponses :
          /\ r.code = 200 /\ GithubReadable(r)
          /\ Answered(r)
          /\ LET items == IF r.key THEN r.items ELSE <<>>
             IN  /\ topics' = topics \o NewTopics(items)
                 /\ page' = page + 1
                 /\ pc' = IF Len(items) = 0 THEN "github_store" ELSE "github_loop"
    /\ UNCHANGED <<niche, writeLimit, results, status, ret, before, calls, file>>

\* self.results['github_topics'] = list(set(topics[:20])); return it.  The set
\* is iterated in any order.
GithubStore ==
    /\ pc = "github_store"
    /\ \E ord \in Orders(Distinct(Take(topics, TopicsCap))) :
          /\ results' = Put(results, K_github_topics, GithubResult(topics, ord))
          /\ ret' = [ret EXCEPT !.github = GithubResult(topics, ord)]
    /\ status' = [status EXCEPT !.github = "ok"]
    /\ pc' = "twitter"
    /\ UNCHANGED <<niche, writeLimit, topics, page, resp, reqs, before, calls, anyResponse, file>>

(* find_twitter_hashtags *)

\* a failure that propagates to the caller
TwitterRaise_Propagates ==
    /\ pc = "twitter"
    /\ calls' = Append(calls, "find_twitter_hashtags")
    /\ before' = results
    /\ reqs' = <<TwitterRequest>>
    /\ topics' = <<>>
    /\ page' = 0
    /\ \/ Unanswered
       \/ \E r \in TwitterResponses(niche) : ~r.json /\ Answered(r)
    /\ status' = [status EXCEPT !.twitter = "propagated"]
    /\ pc' = "crashed"
    /\ UNCHANGED <<niche, writeLimit, results, ret, file>>

\* the request raises, or its answer is no JSON
TwitterRaise ==
    /\ pc = "twitter"
    /\ calls' = Append(calls, "find_twitter_hashtags")
    /\ before' = results
    /\ reqs' = <<TwitterRequest>>
    /\ topics' = <<>>
    /\ page' = 0
    /\ \/ Unanswered
       \/ \E r \in TwitterResponses(niche) : ~r.json /\ Answered(r)
    /\ Except("twitter", <<>>, "dev")
    /\ UNCHANGED <<niche, writeLimit, results, file>>

\* the request is answered with JSON: extract, add the generated hashtags,
\* deduplicate, truncate, store.  The set is iterated in any order.
TwitterOk ==
    /\ pc = "twitter"
    /\ calls' = Append(calls, "find_twitter_hashtags")
    /\ before' = results
    /\ reqs' = <<TwitterRequest>>
    /\ topics' = <<>>
    /\ page' = 0
    /\ \E r \in TwitterResponses(niche) :
          /\ r.json
          /\ Answered(r)
          /\ LET tweets == IF r.key THEN r.items ELSE <<>>
                 hashtags == ExtractHashtags(tweets)
                 generated == GeneratedHashtags(niche)
             IN  \E ord \in Orders(Distinct(hashtags \o generated)) :
                    LET all == TwitterResult(hashtags, generated, ord)
                    IN  /\ results' = Put(results, K_twitter_hashtags, all)
                        /\ ret' = [ret EXCEPT !.twitter = all]
    /\ status' = [status EXCEPT !.twitter = "ok"]
    /\ pc' = "dev"
    /\ UNCHANGED <<niche, writeLimit, file>>

(* The generators *)

\* find_dev_communities
FindDev ==
    /\ pc = "dev"
    /\ calls' = Append(calls, "find_dev_communities")
    /\ before' = results
    /\ reqs' = <<>>
    /\ results' = Put(results, K_dev_communities, DevPlatforms(niche))
    /\ pc' = "online"
    /\ UNCHANGED <<niche, writeLimit, topics, page, resp, status, ret, anyResponse, file>>

\* find_online_communities; aggregate_promotion_channels returns, main prints
FindOnline ==
    /\ pc = "online"
    /\ calls' = Append(calls, "find_online_communities")
    /\ before' = results
    /\ results' = Put(Put(results, K_quora_topics, QuoraTopics(niche)),
                      K_medium_topics, MediumTopics(niche))
    /\ pc' = "export"
    /\ UNCHANGED <<niche, writeLimit, topics, page, resp, reqs, status, ret, anyResponse, file>>

(* export_results *)

\* what json.dump writes without escaping the backslash
ExportText_RawBackslash(d) ==
    LET esc(c) == IF c = 92 THEN <<92>> ELSE EscapeChar(c)
        str(x) == <<34>> \o Concat([i \in 1..Len(x) |-> esc(x[i])]) \o <<34>>
        member(key, list, last) ==
            LET comma == IF last THEN <<>> ELSE <<44>>
                head == Spaces(JsonIndent) \o str(key) \o <<58, 32>>
            IN  IF list = <<>>
                THEN << head \o <<91, 93>> \o comma >>
                ELSE << head \o <<91>> >>
                     \o [i \in 1..Len(list) |->
                           Spaces(2 * JsonIndent) \o str(list[i])
                           \o (IF i = Len(list) THEN <<>> ELSE <<44>>)]
                     \o << Spaces(JsonIndent) \o <<93>> \o comma >>
    IN  << <<123>> >>
        \o Concat([i \in 1..Len(d) |-> member(d[i][1], d[i][2], i = Len(d))])
        \o << <<125>> >>

\* the text json.dump(self.results, f, indent=4) writes
ExportText(d) ==
    JsonDump(d)

RECURSIVE TextPrefix(_, _)
\* the first n characters of the text whose lines are ls, as lines: a text
\* that ends with a newline ends with an empty line, and the empty text has no
\* line
TextPrefix(ls, n) ==
    IF ls = <<>> \/ n = 0 THEN <<>>
    ELSE IF n <= Len(Head(ls)) THEN << Take(Head(ls), n) >>
    ELSE IF n = Len(Head(ls)) + 1 /\ Tail(ls) # <<>> THEN << Head(ls), <<>> >>
    ELSE << Head(ls) >> \o TextPrefix(Tail(ls), n - Len(Head(ls)) - 1)

\* the file system takes n bytes of the text and no more
Cut(text, n) ==
    n # NoLimit /\ TextPrefix(text, n + 1) # TextPrefix(text, n)

\* open() and json.dump succeed: the file holds the text, whatever it held
ExportOk ==
    /\ pc = "export"
    /\ ~Cut(ExportText(results), writeLimit)
    /\ calls' = Append(calls, "export_results")
    /\ before' = results
    /\ file' = [exists |-> TRUE, lines |-> ExportText(results)]
    /\ status' = [status EXCEPT !.export = "ok"]
    /\ pc' = "done"
    /\ UNCHANGED <<niche, writeLimit, results, topics, page, resp, reqs, ret, anyResponse>>

\* open() raises: the file is as it was; the exception is caught
ExportOpenRaise ==
    /\ pc = "export"
    /\ calls' = Append(calls, "export_results")
    /\ before' = results
    /\ status' = [status EXCEPT !.export = "raised"]
    /\ pc' = "done"
    /\ UNCHANGED <<niche, writeLimit, results, topics, page, resp, reqs, ret, anyResponse, file>>

\* a write raises because the text is longer than the file system takes: the
\* file, truncated by open, holds the first writeLimit bytes of the text; the
\* exception is caught
ExportWriteRaise ==
    /\ pc = "export"
    /\ Cut(ExportText(results), writeLimit)
    /\ calls' = Append(calls, "export_results")
    /\ before' = results
    /\ file' = [exists |-> TRUE, lines |-> TextPrefix(ExportText(results), writeLimit)]
    /\ status' = [status EXCEPT !.export = "raised"]
    /\ pc' = "done"
    /\ UNCHANGED <<niche, writeLimit, results, topics, page, resp, reqs, ret, anyResponse>>

FindReddit ==
    RedditTokenRaise \/ RedditTokenOk \/ RedditSearchRaise \/ RedditSearchOk

FindGithub ==
    \/ GithubBegin
    \/ GithubLoopExit
    \/ GithubRequestRaise
    \/ GithubNot200
    \/ GithubPage
    \/ GithubStore

FindTwitter ==
    TwitterRaise \/ TwitterOk

Next ==
    \/ FindReddit
    \/ FindGithub
    \/ FindTwitter
    \/ FindDev
    \/ FindOnline
    \/ ExportOk
    \/ ExportOpenRaise
    \/ ExportWriteRaise

Spec ==
    Init /\ [][Next]_vars

----------------------------------------------------------------------------
(* _clean_text called on its own, on any text *)

InitClean ==
    /\ niche \in SeqsUpTo(TextAlphabet, MaxTextLen)
    /\ results = InitialResults
    /\ pc = "clean"
    /\ topics = <<>>
    /\ page = 0
    /\ resp = NoResponse
    /\ reqs = <<>>
    /\ status = [r \in Routines |-> "pending"]
    /\ ret = [reddit |-> {}, github |-> <<>>, twitter |-> <<>>, clean |-> <<>>]
    /\ before = InitialResults
    /\ calls = <<>>
    /\ anyResponse = FALSE
    /\ file = [exists |-> FALSE, lines |-> <<>>]
    /\ writeLimit = NoLimit

\* self._clean_text(self.niche)
CleanText ==
    /\ pc = "clean"
    /\ ret' = [ret EXCEPT !.clean = clean_text(niche)]
    /\ pc' = "cleaned"
    /\ UNCHANGED <<niche, writeLimit, results, topics, page, resp, reqs, status, before, calls,
                   anyResponse, file>>

SpecClean ==
    InitClean /\ [][CleanText]_vars

----------------------------------------------------------------------------
(* The reader of the exported file: json.load of a file laid out in lines   *)
(* as json.dump(indent=4) lays it out, holding an object whose members are  *)
(* arrays of strings.  A line that is not of this shape, a missing or a     *)
(* surplus comma, an unknown escape or a raw control character make the     *)
(* parse fail (ok = FALSE).                                                 *)

HexVal(c) ==
    IF c \in 48..57 THEN c - 48
    ELSE IF c \in 97..102 THEN c - 87
    ELSE IF c \in 65..70 THEN c - 55
    ELSE -1

RECURSIVE ScanString(_, _, _)
\* the string literal whose opening quote is before position i of s
ScanString(s, i, acc) ==
    IF i > Len(s) THEN [ok |-> FALSE, val |-> acc, next |-> i]
    ELSE IF s[i] = 34 THEN [ok |-> TRUE, val |-> acc, next |-> i + 1]
    ELSE IF s[i] < 32 THEN [ok |-> FALSE, val |-> acc, next |-> i]
    ELSE IF s[i] # 92 THEN ScanString(s, i + 1, Append(acc, s[i]))
    ELSE IF i + 1 > Len(s) THEN [ok |-> FALSE, val |-> acc, next |-> i]
    ELSE LET e == s[i + 1] IN
         IF e \in {34, 92, 47} THEN ScanString(s, i + 2, Append(acc, e))
         ELSE IF e = 98 THEN ScanString(s, i + 2, Append(acc, 8))
         ELSE IF e = 102 THEN ScanString(s, i + 2, Append(acc, 12))
         ELSE IF e = 110 THEN ScanString(s, i + 2, Append(acc, 10))
         ELSE IF e = 114 THEN ScanString(s, i + 2, Append(acc, 13))
         ELSE IF e = 116 THEN ScanString(s, i + 2, Append(acc, 9))
         ELSE IF e = 117 /\ i + 5 <= Len(s)
                 /\ \A k \in 2..5 : HexVal(s[i + k]) >= 0
              THEN ScanString(s, i + 6,
                     Append(acc, 4096 * HexVal(s[i + 2]) + 256 * HexVal(s[i + 3])
                                 + 16 * HexVal(s[i + 4]) + HexVal(s[i + 5])))
         ELSE [ok |-> FALSE, val |-> acc, next |-> i]

\* the line without its leading whitespace
SkipIndent(s) ==
    LET idx == {i \in 1..Len(s) : s[i] \notin {32, 9, 10, 13}}
    IN  IF idx = {} THEN <<>>
        ELSE SubSeq(s, CHOOSE i \in idx : \A j \in idx : i <= j, Len(s))

ParseFailed ==
    [ok |-> FALSE, value |-> <<>>]

\* one line of the body of the object: an element of an array ("elem"), the
\* end of an array ("close"), a member with an empty array ("empty") or the
\* start of a member's array ("open"); str: the string it holds; comma:
\* whether it ends with one; anything else is "bad"
LineToken(line) ==
    LET l == SkipIndent(line)
        bad == [kind |-> "bad", str |-> <<>>, comma |-> FALSE]
    IN  IF l = <<>> THEN bad
        ELSE IF l = <<93>> THEN [kind |-> "close", str |-> <<>>, comma |-> FALSE]
        ELSE IF l = <<93, 44>> THEN [kind |-> "close", str |-> <<>>, comma |-> TRUE]
        ELSE IF l[1] # 34 THEN bad
        ELSE LET r == ScanString(l, 2, <<>>)
                 rest == SubSeq(l, r.next, Len(l))
             IN  IF ~r.ok THEN bad
                 ELSE IF rest = <<>> THEN [kind |-> "elem", str |-> r.val, comma |-> FALSE]
                 ELSE IF rest = <<44>> THEN [kind |-> "elem", str |-> r.val, comma |-> TRUE]
                 ELSE IF rest = <<58, 32, 91>>
                      THEN [kind |-> "open", str |-> r.val, comma |-> FALSE]
                 ELSE IF rest = <<58, 32, 91, 93>>
                      THEN [kind |-> "empty", str |-> r.val, comma |-> FALSE]
                 ELSE IF rest = <<58, 32, 91, 93, 44>>
                      THEN [kind |-> "empty", str |-> r.val, comma |-> TRUE]
                 ELSE bad

\* the object whose body lines (between "{" and "}") have the tokens t
ParseBody(t) ==
    LET n == Len(t)
        member(i) == t[i].kind \in {"open", "empty"}
        \* the line that ends the array opened (or continued) at line i
        closer(i) == CHOOSE j \in (i + 1)..(n + 1) :
                        /\ j = n + 1 \/ t[j].kind # "elem"
                        /\ \A k \in (i + 1)..(j - 1) : t[k].kind = "elem"
        \* the line that opened the array line i belongs to, 0 if none
        opener(i) == LET c == {j \in 1..(i - 1) : t[j].kind # "elem"}
                     IN  IF c = {} THEN 0 ELSE CHOOSE j \in c : \A k \in c : k <= j
        wellFormed ==
            /\ n > 0
            /\ \A i \in 1..n :
                  /\ t[i].kind # "bad"
                  /\ t[i].kind = "open" =>
                        closer(i) <= n /\ t[closer(i)].kind = "close"
                  /\ t[i].kind \in {"elem", "close"} =>
                        opener(i) > 0 /\ t[opener(i)].kind = "open"
                  /\ t[i].kind = "elem" => (t[i].comma <=> t[i + 1].kind = "elem")
                  /\ t[i].kind \in {"close", "empty"} => (t[i].comma <=> i < n)
        members == SelectSeq([i \in 1..n |-> i], member)
        value(i) == IF t[i].kind = "empty" THEN <<>>
                    ELSE [k \in 1..(closer(i) - i - 1) |-> t[i + k].str]
        \* a repeated key keeps its first place and takes its last value
        keys == Dedupe([m \in 1..Len(members) |-> t[members[m]].str])
        lastOf(k) == CHOOSE i \in Range(members) :
                        /\ t[i].str = k
                        /\ \A j \in Range(members) : t[j].str = k => j <= i
    IN  IF wellFormed
        THEN [ok |-> TRUE, value |-> [m \in 1..Len(keys) |-> <<keys[m], value(lastOf(keys[m]))>>]]
        ELSE ParseFailed

\* json.load(f): ok, and the dict read
JsonLoad(ls) ==
    IF ls = << <<123, 125>> >> THEN [ok |-> TRUE, value |-> <<>>]
    ELSE IF Len(ls) < 3 \/ ls[1] # <<123>> \/ ls[Len(ls)] # <<125>> THEN ParseFailed
    ELSE ParseBody([i \in 1..(Len(ls) - 2) |-> LineToken(ls[i + 1])])

----------------------------------------------------------------------------
(* The claims *)

Min(a, b) ==
    IF a < b THEN a ELSE b

NoDuplicates(s) ==
    \A i, j \in 1..Len(s) : i # j => s[i] # s[j]

IsPrefix(s, t) ==
    Len(s) <= Len(t) /\ s = SubSeq(t, 1, Len(s))

EightKeys ==
    << K_subreddits, K_reddit_communities, K_github_topics, K_twitter_hashtags,
       K_dev_communities, K_youtube_channels, K_quora_topics, K_medium_topics >>

CallOrder ==
    << "find_reddit_opportunities", "find_github_topics", "find_twitter_hashtags",
       "find_dev_communities", "find_online_communities", "export_results" >>

\* C1: when every HTTP call raised and the export succeeded, the exported JSON
\* has the eight keys in order, subreddits, github_topics and twitter_hashtags
\* are empty lists, and dev_communities, quora_topics and medium_topics hold
\* their three templated strings.
C1_AllCallsFail ==
    (pc = "done" /\ ~anyResponse /\ status.export = "ok") =>
        LET d == JsonLoad(file.lines)
            c == clean_text(niche)
        IN  /\ d.ok
            /\ Keys(d.value) = EightKeys
            /\ Get(d.value, K_subreddits) = <<>>
            /\ Get(d.value, K_github_topics) = <<>>
            /\ Get(d.value, K_twitter_hashtags) = <<>>
            /\ Get(d.value, K_dev_communities) =
                  << S_devto \o c, c \o S_developers, S_communityDot \o c \o S_dotOrg >>
            /\ Get(d.value, K_quora_topics) =
                  << niche \o S_QCommunity, niche \o S_QDiscussions, S_ExpertsIn \o niche >>
            /\ Get(d.value, K_medium_topics) =
                  << niche \o S_Insights, niche \o S_QCommunity, S_AllAbout \o niche >>

\* a run on the niche 'A' in which the three network routines' calls all raised
\* and the file was written
C1_Witness ==
    /\ pc = "done" /\ ~anyResponse /\ status.export = "ok"
    /\ status.reddit = "raised" /\ status.github = "raised" /\ status.twitter = "raised"
    /\ niche = <<65>>
    /\ file.exists

\* how far the thread is from the end of main
Stage ==
    CASE pc = "reddit_token" -> 10
      [] pc = "reddit_search" -> 9
      [] pc = "github_begin" -> 8
      [] pc = "github_loop" -> 7
      [] pc = "github_store" -> 6
      [] pc = "twitter" -> 5
      [] pc = "dev" -> 4
      [] pc = "online" -> 3
      [] pc = "export" -> 2
      [] pc = "done" -> 1
      [] OTHER -> 0

\* a step of a routine, or the step of export_results in which open() fails
\* (the other steps of export_results are possible in the same states)
SomeStep ==
    FindReddit \/ FindGithub \/ FindTwitter \/ FindDev \/ FindOnline \/ ExportOpenRaise

\* C2: whatever the network calls do, main completes: the routines are invoked
\* in the fixed order, once each (the calls made so far are always a prefix of
\* that order, and all six have been made at the end); as long as the run has
\* not ended a step is possible, whatever failed before; and every step brings
\* the end nearer (a later stage, or one more name in a pagination that goes on
\* only below 20 names), so that no run goes on for ever.
C2_MainCompletes ==
    /\ [](IsPrefix(calls, CallOrder))
    /\ [](pc = "done" => (calls = CallOrder /\ status.export # "pending"))
    /\ [](pc = "done" \/ ENABLED SomeStep)
    /\ [][\/ Stage' < Stage /\ Stage' > 0
          \/ /\ pc = "github_loop" /\ pc' = "github_loop"
             /\ Len(topics) < TopicsWanted
             /\ Len(topics') > Len(topics)]_vars

\* a finished run in which all three network routines failed and the later
\* routines and the export still ran
C2_Witness ==
    /\ pc = "done" /\ calls = CallOrder
    /\ status.reddit = "raised" /\ status.github = "raised" /\ status.twitter = "raised"
    /\ Get(results, K_dev_communities) # <<>>
    /\ Get(results, K_medium_topics) # <<>>

ExtractedSet ==
    LET tweets == IF resp.key THEN resp.items ELSE <<>>
    IN  UNION { { <<35>> \o tweets[i].tags[j] : j \in 1..Len(tweets[i].tags) } :
                i \in {k \in 1..Len(tweets) : tweets[k].entities /\ tweets[k].hashtags} }

GeneratedSet ==
    LET c == clean_text(niche)
    IN  { <<35>> \o c \o S_community, <<35>> \o c \o S_hub, <<35>> \o c \o S_lovers }

C5_Original ==
    pc = "cleaned" =>
        /\ \A i \in 1..Len(ret.clean) :
              ret.clean[i] \in (97..122) \cup (48..57) \cup {32}
        /\ ret.clean # <<>> =>
              /\ ret.clean[1] \notin {9, 10, 11, 12, 13, 32}
              /\ ret.clean[Len(ret.clean)] \notin {9, 10, 11, 12, 13, 32}

\* C5 as amended: the output of _clean_text holds only lower-case letters,
\* digits and whitespace characters (space, tab, newline, ...: what \s
\* matches), and neither starts nor ends with whitespace.
C5_CleanText ==
    pc = "cleaned" =>
        LET ws == {9, 10, 11, 12, 13, 28, 29, 30, 31, 32, 133, 160}
        IN  /\ \A i \in 1..Len(ret.clean) :
                  ret.clean[i] \in (97..122) \cup (48..57) \cup ws
            /\ ret.clean # <<>> =>
                  /\ ret.clean[1] \notin ws
                  /\ ret.clean[Len(ret.clean)] \notin ws

\* '- A' is cleaned to 'a': punctuation removed, the exposed space stripped,
\* the letter lower-cased
C5_Witness ==
    pc = "cleaned" /\ niche = <<45, 32, 65>> /\ ret.clean = <<97>>

\* C6: after an export that met no error, the file parses as JSON to the
\* in-memory report (same keys, same strings, same order), and the report is
\* what it was when export_results was called.
C6_RoundTrip ==
    status.export = "ok" =>
        /\ file.exists
        /\ JsonLoad(file.lines) = [ok |-> TRUE, value |-> results]
        /\ Keys(results) = EightKeys
        /\ results = before

\* an exported report whose strings hold a quote, a backslash, a tab and a
\* non-ASCII character
C6_Witness ==
    /\ status.export = "ok"
    /\ niche = <<34>>
    /\ Len(Get(results, K_subreddits)) = 2
    /\ \E i \in 1..Len(Get(results, K_subreddits)[1]) :
          Get(results, K_subreddits)[1][i] = 92
    /\ Len(Get(results, K_twitter_hashtags)) = 4

\* the routine whose return leaves the thread at pc
JustReturned(r) ==
    \/ r = "reddit" /\ pc = "github_begin"
    \/ r = "github" /\ pc = "twitter"
    \/ r = "twitter" /\ pc = "dev"

EmptyResult(r) ==
    IF r = "reddit" THEN ret.reddit = {} ELSE ret[r] = <<>>

\* C7 as claimed: a routine that met a failure, a non-200 answer included,
\* returned an empty result and left the report as it was.
C7_Original ==
    \A r \in {"reddit", "github", "twitter"} :
        (JustReturned(r) /\ (status[r] = "raised" \/ resp.code \notin {0, 200})) =>
            (EmptyResult(r) /\ results = before)

\* C7 as amended: a routine in which a step raised (the call itself, an answer
\* that is no JSON or lacks a key, a full_name without '/') returned an empty
\* result, left every category of the report as it was at the call, and sent
\* no request twice; and find_github_topics leaves the report alone until its
\* pagination has ended.
C7_RaiseLeavesReport ==
    /\ \A r \in {"reddit", "github", "twitter"} :
          (JustReturned(r) /\ status[r] = "raised") =>
              (EmptyResult(r) /\ results = before /\ NoDuplicates(reqs))
    /\ pc \in {"reddit_search", "github_loop", "github_store"} => results = before

\* find_github_topics failed on a later page, after names had been accumulated
C7_Witness ==
    /\ pc = "twitter" /\ status.github = "raised"
    /\ Len(topics) > 1
    /\ Len(reqs) > 2
    /\ Get(results, K_github_topics) = <<>>
    /\ Get(results, K_subreddits) # <<>>

\* the items the loop read from the last answer
LastItems ==
    IF resp.key THEN resp.items ELSE <<>>

\* C8: the pages requested are 1, 2, 3, ... in order, at most 20 of them (every
\* page that lets the loop go on adds a name); the loop goes on only after a
\* 200 answer with items and fewer than 20 names, and is left with at least 20
\* names, a non-200 answer or a page without items; the names accumulated
\* before a non-200 answer are all in the result.
C8_Pagination ==
    /\ pc \in {"github_loop", "github_store", "twitter"} =>
          /\ reqs = [i \in 1..Len(reqs) |-> GithubRequest(i)]
          /\ Len(reqs) <= 20
    /\ pc = "github_loop" =>
          /\ page = Len(reqs) + 1
          /\ Len(topics) >= Len(reqs)
          /\ reqs # <<>> => (resp.code = 200 /\ Len(LastItems) > 0)
    /\ (pc = "github_store" \/ (pc = "twitter" /\ status.github = "ok")) =>
          \/ Len(topics) >= 20
          \/ resp.code # 200
          \/ (resp.code = 200 /\ Len(LastItems) = 0)
    /\ (pc = "twitter" /\ status.github = "ok" /\ resp.code # 200) =>
          Range(Get(results, K_github_topics)) = Range(topics)

\* twenty one-item pages were requested, the most there can be
C8_Witness ==
    pc = "github_store" /\ Len(reqs) = 20 /\ Len(topics) = 20 /\ page = 21

\* C9 as claimed: after a pagination that met no exception, github_topics has
\* min(20, number of distinct accumulated names) entries.
C9_Original ==
    (pc = "twitter" /\ status.github = "ok") =>
        Len(Get(results, K_github_topics)) = Min(20, Cardinality(Range(topics)))

\* C10 as claimed: after find_reddit_opportunities, subreddits has at most 20
\* entries, and after a success reddit_communities holds the three names.
C10_Original ==
    /\ Len(Get(results, K_subreddits)) <= 20
    /\ (pc = "github_begin" /\ status.reddit = "ok") =>
          Len(Get(results, K_reddit_communities)) = 3

\* C10 as amended: the search is requested with limit 20; after a success,
\* subreddits holds the display name of every child of the answer, in order
\* (so at most 20 when the answer has at most 20 children), and
\* reddit_communities holds the three generated names.
C10_RedditStored ==
    (pc = "github_begin" /\ status.reddit = "ok") =>
        /\ Len(reqs) = 2 /\ reqs[2].arg = 20
        /\ Get(results, K_subreddits) = resp.items
        /\ Len(resp.items) <= 20 => Len(Get(results, K_subreddits)) <= 20
        /\ Get(results, K_reddit_communities) =
              << clean_text(niche) \o S_community, niche \o S_discussions,
                 niche \o S_hub >>
        /\ ret.reddit = { <<K_subreddits, Get(results, K_subreddits)>>,
                          <<K_communities, Get(results, K_reddit_communities)>> }

\* an answer with more than 20 children, all stored
C10_Witness ==
    /\ pc = "github_begin" /\ status.reddit = "ok"
    /\ Len(resp.items) > 20
    /\ Len(Get(results, K_subreddits)) = Len(resp.items)

====
